---- MODULE Spec2Model ----
(***************************************************************************)
(* Model of the embedding / retrieval pipeline of WhyBase:                 *)
(*   server/api/services/embedding_service.py   (chunking, preparers)      *)
(*   server/sync_embeddings.py                  (full-replace sync job)    *)
(*   server/api/services/knowledge_retrieval.py (vector search)            *)
(* Texts are sequences of one-character strings.  Similarities are         *)
(* integers in thousandths (0.3 is 300).                                   *)
(***************************************************************************)
EXTENDS Integers, Sequences, FiniteSets, TLC

(***************************************************************************)
(* Bounds of the model.                                                    *)
(***************************************************************************)
MaxTenants == 2
MaxRuns == 2
MaxIssues == 1
MaxRepos == 1
MaxTextLen == 6
MaxChunkLen == 5
MaxIter == 8
MaxThreads == 3
MaxCallers == 2
MaxCalls == 7
MaxClock == 60
TickSeconds == 30

(***************************************************************************)
(* Program constants.                                                      *)
(***************************************************************************)
DefaultMaxLength == 500
DefaultOverlap == 50
DefaultLimit == 7
DefaultMinSimilarity == 300

Tenants == 1..MaxTenants
Runs == 1..MaxRuns
IssueIds == 1..MaxIssues
RepoIds == 1..MaxRepos
Threads == 1..MaxThreads

\* Python's None where a text is expected: a value that is no text (texts are
\* sequences of single characters).
None == <<"None">>

(***************************************************************************)
(* Python string primitives.                                               *)
(***************************************************************************)
Min(a, b) == IF a < b THEN a ELSE b
Max(a, b) == IF a > b THEN a ELSE b

Whitespace == {" ", "\n", "\t"}

\* str.strip(): drop leading and trailing whitespace.
Strip(s) ==
  IF \A i \in 1..Len(s) : s[i] \in Whitespace THEN <<>>
  ELSE LET lo == CHOOSE i \in 1..Len(s) :
                   s[i] \notin Whitespace /\ \A j \in 1..(i - 1) : s[j] \in Whitespace
           hi == CHOOSE i \in 1..Len(s) :
                   s[i] \notin Whitespace /\ \A j \in (i + 1)..Len(s) : s[j] \in Whitespace
       IN  SubSeq(s, lo, hi)

\* s[start:end] with Python's treatment of negative and oversized indices.
PyIndex(n, len) == IF n < 0 THEN Max(n + len, 0) ELSE Min(n, len)
PySlice(s, start, end) ==
  SubSeq(s, PyIndex(start, Len(s)) + 1, PyIndex(end, Len(s)))

\* s.rfind(c) for a one-character needle: highest 0-based index, or -1.
RFind1(s, c) ==
  LET hits == {i \in 1..Len(s) : s[i] = c}
  IN  IF hits = {} THEN -1
      ELSE (CHOOSE i \in hits : \A j \in hits : i >= j) - 1

\* s.rfind(c + d) for a two-character needle: highest 0-based index, or -1.
RFind2(s, c, d) ==
  LET hits == {i \in 1..(Len(s) - 1) : s[i] = c /\ s[i + 1] = d}
  IN  IF hits = {} THEN -1
      ELSE (CHOOSE i \in hits : \A j \in hits : i >= j) - 1

\* A text of n copies of the character c.
Repeat(c, n) == [i \in 1..n |-> c]

(***************************************************************************)
(* EmbeddingService.chunk_text                                             *)
(***************************************************************************)
\* Mutant of NextStart: the cursor skips one character after each window.
NextStartSkips(end, overlap) == end + 1

\* `start = end - overlap`
NextStart(end, overlap) == end - overlap

\* Mutant of SuitableBreak: a break exactly half way into the window counts.
SuitableBreakAtHalf(break_point, max_length) == 2 * break_point >= max_length

\* `break_point > max_length * 0.5`
SuitableBreak(break_point, max_length) == 2 * break_point > max_length

\* One iteration of the while loop: the window's end, the stripped chunk and
\* the cursor for the next iteration.
ChunkIter(text, max_length, overlap, start) ==
  LET end0 == start + max_length
      window == PySlice(text, start, end0)
      last_period == RFind2(window, ".", " ")
      last_newline == RFind1(window, "\n")
      break_point == Max(last_period, last_newline)
      end == IF end0 < Len(text) /\ SuitableBreak(break_point, max_length)
             THEN start + break_point + 1
             ELSE end0
  IN  [end |-> end, chunk |-> Strip(PySlice(text, start, end)),
       next |-> NextStart(end, overlap)]

RECURSIVE ChunkLoop(_, _, _, _, _)
ChunkLoop(text, max_length, overlap, start, chunks) ==
  IF ~(start < Len(text)) THEN chunks
  ELSE LET it == ChunkIter(text, max_length, overlap, start)
       IN  ChunkLoop(text, max_length, overlap, it.next,
                     IF it.chunk # <<>> THEN Append(chunks, it.chunk) ELSE chunks)

\* Mutant of ChunkShort: the short text is returned stripped.
ChunkShortStripped(text) == IF text # <<>> THEN <<Strip(text)>> ELSE <<>>

\* The early return of chunk_text: an empty or short text is returned as is.
ChunkShort(text) == IF text # <<>> THEN <<text>> ELSE <<>>

chunk_text(text, max_length, overlap) ==
  IF text = <<>> \/ Len(text) <= max_length
  THEN ChunkShort(text)
  ELSE ChunkLoop(text, max_length, overlap, 0, <<>>)

(***************************************************************************)
(* Content preparers                                                       *)
(***************************************************************************)
\* `x or ''`: None (and the empty text) become the empty text.
OrEmpty(x) == IF x = None THEN <<>> ELSE x

IssueFullText(issue) ==
  Strip(issue.title \o <<"\n", "\n">> \o OrEmpty(issue.body))

\* Mutant of IssueItems: the chunks are numbered from 1.
IssueItemsFromOne(issue, chunks) ==
  [i \in 1..Len(chunks) |->
     [content |-> chunks[i], source_type |-> "issue", source_id |-> issue.id,
      metadata |-> [title |-> issue.title, chunk_index |-> i,
                    total_chunks |-> Len(chunks)]]]

\* The candidates of one issue: one per chunk, in chunk order.
IssueItems(issue, chunks) ==
  [i \in 1..Len(chunks) |->
     [content |-> chunks[i],
      source_type |-> "issue",
      source_id |-> issue.id,
      metadata |-> [title |-> issue.title, chunk_index |-> i - 1,
                    total_chunks |-> Len(chunks)]]]

\* Mutant of prepare_issue_for_embedding: the text is not chunked.
prepare_issue_unchunked(issue) ==
  IF IssueFullText(issue) = <<>> THEN <<>>
  ELSE [i \in 1..1 |->
          [content |-> IssueFullText(issue), source_type |-> "issue",
           source_id |-> issue.id,
           metadata |-> [title |-> issue.title, chunk_index |-> 0, total_chunks |-> 1]]]

prepare_issue_for_embedding(issue) ==
  LET full_text == IssueFullText(issue)
  IN  IF full_text = <<>> THEN <<>>
      ELSE IssueItems(issue, chunk_text(full_text, DefaultMaxLength, DefaultOverlap))

\* The content of a repository: name and description, or the name alone when
\* the two together strip to nothing.
RepositoryText(repo) ==
  LET text == Strip(repo.name \o <<"\n">> \o OrEmpty(repo.description))
  IN  IF text = <<>> THEN repo.name ELSE text

prepare_repository_for_embedding(repo) ==
  [content |-> RepositoryText(repo),
   source_type |-> "repository",
   source_id |-> repo.id,
   metadata |-> [name |-> repo.name]]

(***************************************************************************)
(* Embedding model adapter.  The sentence-transformer is an external       *)
(* model: a text is mapped to one of eight unit directions (multiples of   *)
(* 45 degrees) by a fixed function of the text; the empty text of          *)
(* embed_text is the zero vector.                                          *)
(***************************************************************************)
ZeroVector == -1

Encode(text) ==
  (Len(text) + 2 * Cardinality({i \in 1..Len(text) : text[i] \in Whitespace})) % 8

embed_text(text) == IF text = <<>> THEN ZeroVector ELSE Encode(text)

\* Mutant of embed_batch: the empty texts are filtered out, not embedded.
embed_batch_skipping(texts) ==
  LET valid_texts == SelectSeq(texts, LAMBDA t : t # <<>>)
  IN  [i \in 1..Len(valid_texts) |-> Encode(valid_texts[i])]

\* embed_batch: one vector per text, the empty text embedded as " ".
embed_batch(texts) ==
  [i \in 1..Len(texts) |-> Encode(IF texts[i] # <<>> THEN texts[i] ELSE <<" ">>)]

(***************************************************************************)
(* Conversions of the tenant key: str(user_id) on the Python side and      *)
(* metadata->>'user_id' (the JSON number as text) on the SQL side.         *)
(***************************************************************************)
Digits == <<"0", "1", "2", "3", "4", "5", "6", "7", "8", "9">>

RECURSIVE IntToStr(_)
IntToStr(n) ==
  IF n < 10 THEN <<Digits[n + 1]>>
  ELSE IntToStr(n \div 10) \o <<Digits[(n % 10) + 1]>>

\* metadata->>'user_id': the text of the JSON value stored under the key.
JsonText(v) == IntToStr(v)

(***************************************************************************)
(* Inputs: the titles, bodies, names and descriptions the source store may *)
(* hold.  LongBody is longer than one chunk and has a sentence end in the  *)
(* second half of its first window.                                        *)
(***************************************************************************)
LongBody == Repeat("a", 400) \o <<".", " ">> \o Repeat("b", 200)

IssueTexts ==
  { [title |-> <<>>, body |-> None],
    [title |-> <<"a">>, body |-> None],
    [title |-> <<"a">>, body |-> LongBody] }

RepoTexts ==
  { [name |-> <<>>, description |-> None],
    [name |-> <<"a">>, description |-> <<"b">>] }

\* The owner of a source row: primary keys are never reassigned, so each id
\* belongs to one tenant for good.
IssueOwner(i) == ((i - 1) % MaxTenants) + 1
RepoOwner(j) == MaxTenants - ((j - 1) % MaxTenants)

Queries == { <<>>, <<"a">> }
Limits == { 1, DefaultLimit }
MinSimilarities == { 0, DefaultMinSimilarity }

(***************************************************************************)
(* State.                                                                  *)
(*   issues, repos  the source store (GitHub data), by primary key         *)
(*   embeddings     the committed rows of the embeddings table             *)
(*   run            the sync_embeddings invocations: position and locals   *)
(*   hist           per run, the tenant's rows when the run began and      *)
(*                  whether it ran without another run of the same tenant  *)
(*   results, searched   the value and arguments of the last search        *)
(*   chunker        one chunk_text call executed loop iteration by         *)
(*                  iteration, with the windows [start, end) it has cut    *)
(*   preparer       one prepare_issue_for_embedding call: the issue and    *)
(*                  the candidates returned                                *)
(*   service        the module global _embedding_service, the number of    *)
(*                  EmbeddingService objects constructed and the threads   *)
(*                  inside get_embedding_service                           *)
(*   retrieval      one get_all_context call: its arguments, the search    *)
(*                  results it got and the value it returned               *)
(*   reply          one request to POST /query and the response sent       *)
(*   limiter        the rate limiter: the clock, the recorded request      *)
(*                  times of the client key, the threads inside a          *)
(*                  decorated endpoint, and the answers given so far: the  *)
(*                  number of allowed calls per endpoint and timestamp,    *)
(*                  of denied calls per endpoint, and the last answer      *)
(***************************************************************************)
VARIABLES issues, repos, embeddings, run, hist, results, searched, chunker,
          preparer, service, retrieval, reply, limiter

vars == <<issues, repos, embeddings, run, hist, results, searched, chunker,
          preparer, service, retrieval, reply, limiter>>

\* The rows of a tenant, selected as the DELETE and the SELECT do:
\* WHERE metadata->>'user_id' = str(user_id).
TenantRows(table, user_id) ==
  {e \in table : JsonText(e.metadata.user_id) = IntToStr(user_id)}

\* session.query(X).filter_by(user_id=user_id).all(): the tenant's rows in
\* primary-key order.
RECURSIVE InIdOrder(_)
InIdOrder(rows) ==
  IF rows = {} THEN <<>>
  ELSE LET first == CHOOSE x \in rows : \A y \in rows : x.id <= y.id
       IN  <<first>> \o InIdOrder(rows \ {first})

QueryByUser(table, user_id) == InIdOrder({x \in table : x.user_id = user_id})

Active == {"issues_loaded", "loaded", "deleted", "inserted"}
Completed == {"no_data", "no_content", "synced"}
Finished == Completed \cup {"failed"}

IdleRun == [pc |-> "idle", user_id |-> 0, issues |-> <<>>, repos |-> <<>>, items |-> <<>>]
IdleHist == [pre |-> {}, post |-> {}, alone |-> TRUE, stage |-> "idle"]
NoSearch == [query |-> <<>>, user_id |-> 0, limit |-> 0, min_similarity |-> 0]
IdleChunker ==
  [pc |-> "idle", text |-> <<>>, max_length |-> 0, overlap |-> 0,
   start |-> 0, chunks |-> <<>>, iter |-> 0, windows |-> <<>>]

NoIssue == [id |-> 0, title |-> <<>>, body |-> None]
IdlePreparer == [pc |-> "idle", issue |-> NoIssue, items |-> <<>>]
IdleThread == [pc |-> "idle", local |-> 0, got |-> 0]
IdleService == [instance |-> 0, built |-> 0, thread |-> [t \in Threads |-> IdleThread]]

IdleRetrieval ==
  [pc |-> "idle", query |-> <<>>, user_id |-> 0, results |-> <<>>, value |-> <<>>]
IdleReply ==
  [pc |-> "idle", prompt |-> <<>>, user_id |-> 0, use_context |-> FALSE,
   status |-> 0, ai_prompt |-> <<>>, error |-> "", sources |-> <<>>,
   context |-> [type |-> "dict", value |-> <<>>]]
\* The decorated endpoints: @rate_limit(max_requests, window_seconds).
QueryMaxRequests == 30
QueryWindowSeconds == 60
SyncMaxRequests == 5
SyncWindowSeconds == 60

Endpoints == {"query", "sync"}
MaxRequests(endpoint) ==
  IF endpoint = "query" THEN QueryMaxRequests ELSE SyncMaxRequests
WindowSeconds(endpoint) ==
  IF endpoint = "query" THEN QueryWindowSeconds ELSE SyncWindowSeconds

\* The threads serving requests of the one client, and the values of
\* time.time() they may read.
Callers == 1..MaxCallers
Times == {k * TickSeconds : k \in 0..(MaxClock \div TickSeconds)}

IdleCall == [pc |-> "idle", now |-> 0, endpoint |-> ""]
NoAnswer == [endpoint |-> "", now |-> 0, allowed |-> TRUE]
IdleLimiter ==
  [clock |-> 0, requests |-> <<>>, calls |-> 0,
   thread |-> [t \in Callers |-> IdleCall],
   allowed |-> [x \in Endpoints \X Times |-> 0],
   denied |-> [e \in Endpoints |-> 0],
   last |-> NoAnswer]

Init ==
  /\ issues = {}
  /\ repos = {}
  /\ embeddings = {}
  /\ run = [r \in Runs |-> IdleRun]
  /\ hist = [r \in Runs |-> IdleHist]
  /\ results = <<>>
  /\ searched = NoSearch
  /\ chunker = IdleChunker
  /\ preparer = IdlePreparer
  /\ service = IdleService
  /\ retrieval = IdleRetrieval
  /\ reply = IdleReply
  /\ limiter = IdleLimiter

\* No search result is in a caller's hands.
Quiet == searched = NoSearch

(***************************************************************************)
(* The source store: the GitHub sync route writes issues and repositories  *)
(* of the calling user; disconnecting removes them.                        *)
(***************************************************************************)
UpsertIssue(i, u, t) ==
  /\ Quiet
  /\ u = IssueOwner(i)
  /\ issues' = {x \in issues : x.id # i}
                  \cup {[id |-> i, user_id |-> u, title |-> t.title, body |-> t.body]}
  /\ UNCHANGED <<repos, embeddings, run, hist, results, searched, chunker, preparer, service,
                 retrieval, reply, limiter>>

UpsertRepo(j, u, t) ==
  /\ Quiet
  /\ u = RepoOwner(j)
  /\ repos' = {x \in repos : x.id # j}
                 \cup {[id |-> j, user_id |-> u, name |-> t.name,
                        description |-> t.description]}
  /\ UNCHANGED <<issues, embeddings, run, hist, results, searched, chunker, preparer, service,
                 retrieval, reply, limiter>>

DisconnectGitHub(u) ==
  /\ Quiet
  /\ \E x \in issues \cup repos : x.user_id = u
  /\ issues' = {x \in issues : x.user_id # u}
  /\ repos' = {x \in repos : x.user_id # u}
  /\ UNCHANGED <<embeddings, run, hist, results, searched, chunker, preparer, service,
                 retrieval, reply, limiter>>

(***************************************************************************)
(* sync_embeddings(user_id), one action per database round trip.           *)
(***************************************************************************)
\* chunk['metadata']['user_id'] = user_id
WithUser(item, user_id) ==
  [item EXCEPT !.metadata = [user_id |-> user_id] @@ item.metadata]

RECURSIVE AllChunks(_, _)
AllChunks(iss, user_id) ==
  IF iss = <<>> THEN <<>>
  ELSE LET chunks == prepare_issue_for_embedding(Head(iss))
       IN  [k \in 1..Len(chunks) |-> WithUser(chunks[k], user_id)]
           \o AllChunks(Tail(iss), user_id)

RepoItems(reps, user_id) ==
  [k \in 1..Len(reps) |-> WithUser(prepare_repository_for_embedding(reps[k]), user_id)]

AllItems(iss, reps, user_id) == AllChunks(iss, user_id) \o RepoItems(reps, user_id)

\* The rows the INSERT loop writes: item k paired with embedding k; the row
\* identity <<r, k>> stands for the serial primary key.
InsertRows(r, all_items, embs) ==
  [k \in 1..Min(Len(all_items), Len(embs)) |->
     [id |-> <<r, k>>,
      content |-> all_items[k].content,
      embedding |-> embs[k],
      source_type |-> all_items[k].source_type,
      source_id |-> all_items[k].source_id,
      metadata |-> all_items[k].metadata]]

Range(f) == {f[k] : k \in DOMAIN f}

\* Mutant of DeleteForUser: the DELETE removes nothing.
DeleteNothing(table, user_id) == table

\* Mutant of DeleteForUser: the DELETE has no tenant filter.
DeleteAll(table, user_id) == {}

\* DELETE FROM embeddings WHERE metadata->>'user_id' = :uid
DeleteForUser(table, user_id) == table \ TenantRows(table, user_id)

\* The rows a committed INSERT transaction adds to the table.
CommitInsert(table, rows) == table \cup Range(rows)

\* The ids of a tenant's committed rows.
TenantIds(table, user_id) == {e.id : e \in TenantRows(table, user_id)}

\* Mutant of Rollback: the rows written before the failure stay in the table.
RollbackKeeps(table, rows) == table \cup Range(rows)

\* Leaving the connection block without a commit: the rows written in the open
\* transaction are discarded.
Rollback(table, rows) == table

\* The history of a run that begins for tenant u, and of the runs it overlaps.
BeginHist(r, u) ==
  LET others == {o \in Runs \ {r} : run[o].pc \in Active /\ run[o].user_id = u}
  IN  [o \in Runs |->
         IF o = r
         THEN [hist[r] EXCEPT !.pre = TenantIds(embeddings, u), !.alone = others = {}]
         ELSE IF o \in others THEN [hist[o] EXCEPT !.alone = FALSE]
         ELSE hist[o]]

\* The history of a run that ends: the tenant's rows it leaves behind and the
\* position it ended at.
EndHist(r, table) ==
  [hist EXCEPT ![r].post = TenantIds(table, run[r].user_id), ![r].stage = run[r].pc]

\* A finished run keeps the source data it had loaded and drops the rest.
Finish(r, pc) == [run EXCEPT ![r].pc = pc, ![r].items = <<>>]

\* issues = session.query(Issue).filter_by(user_id=user_id).all()
LoadIssues(r, u) ==
  /\ Quiet
  /\ run[r].pc = "idle"
  /\ run' = [run EXCEPT ![r] =
               [@ EXCEPT !.pc = "issues_loaded", !.user_id = u,
                         !.issues = QueryByUser(issues, u)]]
  /\ hist' = BeginHist(r, u)
  /\ UNCHANGED <<issues, repos, embeddings, results, searched, chunker, preparer, service,
                 retrieval, reply, limiter>>

\* Mutant of NoData: the early return is never taken.
NoDataNever(iss, reps) == FALSE

\* Mutant of NoData: the run also returns before its DELETE when the loaded
\* data yields nothing to embed.
NoDataOrNoContent(iss, reps) == Len(AllItems(iss, reps, 0)) = 0

\* `if not issues and not repos: return`
NoData(iss, reps) == iss = <<>> /\ reps = <<>>

\* repos = session.query(Repository).filter_by(user_id=user_id).all(), then
\* the early return when nothing was found.
LoadRepos(r) ==
  /\ Quiet
  /\ run[r].pc = "issues_loaded"
  /\ LET reps == QueryByUser(repos, run[r].user_id)
     IN  IF NoData(run[r].issues, reps)
         THEN /\ run' = Finish(r, "no_data")
              /\ hist' = EndHist(r, embeddings)
         ELSE /\ run' = [run EXCEPT ![r].repos = reps, ![r].pc = "loaded"]
              /\ hist' = hist
  /\ UNCHANGED <<issues, repos, embeddings, results, searched, chunker, preparer, service,
                 retrieval, reply, limiter>>

\* A query of the source store raises: the run ends before touching the table.
LoadReposFails(r) ==
  /\ Quiet
  /\ run[r].pc = "issues_loaded"
  /\ run' = Finish(r, "failed")
  /\ hist' = EndHist(r, embeddings)
  /\ UNCHANGED <<issues, repos, embeddings, results, searched, chunker, preparer, service,
                 retrieval, reply, limiter>>

\* The DELETE and its commit.
ClearOld(r) ==
  /\ Quiet
  /\ run[r].pc = "loaded"
  /\ embeddings' = DeleteForUser(embeddings, run[r].user_id)
  /\ run' = [run EXCEPT ![r].pc = "deleted"]
  /\ UNCHANGED <<issues, repos, hist, results, searched, chunker, preparer, service,
                 retrieval, reply, limiter>>

\* The DELETE (or its commit) raises: nothing is deleted, the run ends.
ClearOldFails(r) ==
  /\ Quiet
  /\ run[r].pc = "loaded"
  /\ run' = Finish(r, "failed")
  /\ hist' = EndHist(r, embeddings)
  /\ UNCHANGED <<issues, repos, embeddings, results, searched, chunker, preparer, service,
                 retrieval, reply, limiter>>

\* Preparing, embedding and the INSERT loop: the rows are written in an open
\* transaction and are not visible before the commit.  With nothing to embed
\* the run returns.
PrepareAndInsert(r) ==
  /\ Quiet
  /\ run[r].pc = "deleted"
  /\ LET all_items == AllItems(run[r].issues, run[r].repos, run[r].user_id)
         embs == embed_batch([k \in 1..Len(all_items) |-> all_items[k].content])
     IN  IF Len(all_items) = 0
         THEN /\ run' = Finish(r, "no_content")
              /\ hist' = EndHist(r, embeddings)
         ELSE /\ run' = [run EXCEPT ![r].pc = "inserted",
                                    ![r].items = InsertRows(r, all_items, embs)]
              /\ hist' = hist
  /\ UNCHANGED <<issues, repos, embeddings, results, searched, chunker, preparer, service,
                 retrieval, reply, limiter>>

\* embed_batch raises (the model is unavailable): the run ends after its
\* delete was committed.
EmbedFails(r) ==
  /\ Quiet
  /\ run[r].pc = "deleted"
  /\ Len(AllItems(run[r].issues, run[r].repos, run[r].user_id)) > 0
  /\ run' = Finish(r, "failed")
  /\ hist' = EndHist(r, embeddings)
  /\ UNCHANGED <<issues, repos, embeddings, results, searched, chunker, preparer, service,
                 retrieval, reply, limiter>>

\* The k-th INSERT raises: the open transaction is rolled back.
InsertFails(r) ==
  /\ Quiet
  /\ run[r].pc = "deleted"
  /\ LET all_items == AllItems(run[r].issues, run[r].repos, run[r].user_id)
         embs == embed_batch([k \in 1..Len(all_items) |-> all_items[k].content])
     IN  \E k \in 1..Len(all_items) :
           embeddings' = Rollback(embeddings, SubSeq(InsertRows(r, all_items, embs), 1, k - 1))
  /\ run' = Finish(r, "failed")
  /\ hist' = EndHist(r, embeddings')
  /\ UNCHANGED <<issues, repos, results, searched, chunker, preparer, service,
                 retrieval, reply, limiter>>

\* conn.commit() of the INSERT transaction.
CommitNew(r) ==
  /\ Quiet
  /\ run[r].pc = "inserted"
  /\ embeddings' = CommitInsert(embeddings, run[r].items)
  /\ run' = Finish(r, "synced")
  /\ hist' = EndHist(r, embeddings')
  /\ UNCHANGED <<issues, repos, results, searched, chunker, preparer, service,
                 retrieval, reply, limiter>>

\* The commit raises: the inserted rows are rolled back.
CommitNewFails(r) ==
  /\ Quiet
  /\ run[r].pc = "inserted"
  /\ embeddings' = Rollback(embeddings, run[r].items)
  /\ run' = Finish(r, "failed")
  /\ hist' = EndHist(r, embeddings')
  /\ UNCHANGED <<issues, repos, results, searched, chunker, preparer, service,
                 retrieval, reply, limiter>>

SyncStep(r) ==
  \/ \E u \in Tenants : LoadIssues(r, u)
  \/ LoadRepos(r)
  \/ LoadReposFails(r)
  \/ ClearOld(r)
  \/ ClearOldFails(r)
  \/ PrepareAndInsert(r)
  \/ EmbedFails(r)
  \/ InsertFails(r)
  \/ CommitNew(r)
  \/ CommitNewFails(r)

(***************************************************************************)
(* search_similar_embeddings(query, user_id, limit, min_similarity)        *)
(***************************************************************************)
\* The float NaN, a value outside the range of the similarities and distances.
NaN == 9999

\* 1000 * cos of k eighths of a turn.
CosMilli(k) == <<1000, 707, 0, -707, -1000, -707, 0, 707>>[(k % 8) + 1]

\* embedding <=> query_embedding, in thousandths; NaN against the zero vector.
CosineDistance(a, b) ==
  IF a = ZeroVector \/ b = ZeroVector THEN NaN ELSE 1000 - CosMilli(a - b + 8)

\* 1 - (embedding <=> query_embedding)
Similarity(a, b) ==
  LET d == CosineDistance(a, b) IN IF d = NaN THEN NaN ELSE 1000 - d

\* ORDER BY on a float: NaN sorts after every number.
DistLeq(x, y) == IF y = NaN THEN TRUE ELSE IF x = NaN THEN FALSE ELSE x <= y

\* x >= y on floats: false when either side is NaN.
FloatGeq(x, y) == x # NaN /\ y # NaN /\ x >= y

\* Mutant of SearchScope: the SELECT has no tenant filter.
SearchUnscoped(table, user_id) == table

\* WHERE metadata->>'user_id' = :user_id
SearchScope(table, user_id) == TenantRows(table, user_id)

\* Every order the ORDER BY may return the rows in: ascending distance, rows
\* of equal distance in any order.
RECURSIVE Orderings(_, _)
Orderings(rows, qv) ==
  IF rows = {} THEN {<<>>}
  ELSE LET first == {e \in rows : \A f \in rows :
                       DistLeq(CosineDistance(e.embedding, qv),
                               CosineDistance(f.embedding, qv))}
       IN  UNION {{<<e>> \o o : o \in Orderings(rows \ {e}, qv)} : e \in first}

\* LIMIT :limit
Limit(rows, limit) == SubSeq(rows, 1, Min(limit, Len(rows)))

\* Mutant of BelowThreshold: no row is skipped.
BelowNever(similarity, min_similarity) == FALSE

\* `if similarity < min_similarity: continue`; a comparison with NaN is false.
BelowThreshold(similarity, min_similarity) ==
  IF similarity = NaN THEN FALSE ELSE similarity < min_similarity

\* The Python loop over the returned rows.
ResultRows(rows, qv, min_similarity) ==
  LET out == [k \in 1..Len(rows) |->
                [row |-> rows[k].id,
                 content |-> rows[k].content,
                 source_type |-> rows[k].source_type,
                 source_id |-> rows[k].source_id,
                 metadata |-> rows[k].metadata,
                 similarity |-> Similarity(rows[k].embedding, qv)]]
  IN  SelectSeq(out, LAMBDA x : ~BelowThreshold(x.similarity, min_similarity))

\* The values one search may return on the committed table.
SearchResults(table, query, user_id, limit, min_similarity) ==
  LET qv == embed_text(query)
  IN  {ResultRows(Limit(o, limit), qv, min_similarity) :
         o \in Orderings(SearchScope(table, user_id), qv)}

Search(query, user_id, limit, min_similarity) ==
  /\ Quiet
  /\ results' \in SearchResults(embeddings, query, user_id, limit, min_similarity)
  /\ searched' = [query |-> query, user_id |-> user_id, limit |-> limit,
                  min_similarity |-> min_similarity]
  /\ UNCHANGED <<issues, repos, embeddings, run, hist, chunker, preparer, service,
                 retrieval, reply, limiter>>

\* The caller is done with the result of its search.
SearchReturns ==
  /\ ~Quiet
  /\ results' = <<>>
  /\ searched' = NoSearch
  /\ UNCHANGED <<issues, repos, embeddings, run, hist, chunker, preparer, service,
                 retrieval, reply, limiter>>

Next ==
  \/ \E i \in IssueIds, u \in Tenants, t \in IssueTexts : UpsertIssue(i, u, t)
  \/ \E j \in RepoIds, u \in Tenants, t \in RepoTexts : UpsertRepo(j, u, t)
  \/ \E u \in Tenants : DisconnectGitHub(u)
  \/ \E r \in Runs : SyncStep(r)
  \/ \E q \in Queries, u \in Tenants, l \in Limits, m \in MinSimilarities :
       Search(q, u, l, m)
  \/ SearchReturns

Spec == Init /\ [][Next]_vars

(***************************************************************************)
(* chunk_text as a program: the call, then one action per iteration of the *)
(* while loop.  The inputs are every text of at most MaxTextLen characters *)
(* and every max_length and overlap up to MaxChunkLen.                     *)
(***************************************************************************)
Chars == {"a", " ", ".", "\n"}

Texts == UNION {[1..n -> Chars] : n \in 0..MaxTextLen}

InitChunk ==
  /\ issues = {}
  /\ repos = {}
  /\ embeddings = {}
  /\ run = [r \in Runs |-> IdleRun]
  /\ hist = [r \in Runs |-> IdleHist]
  /\ results = <<>>
  /\ searched = NoSearch
  /\ \E text \in Texts, max_length \in 1..MaxChunkLen, overlap \in 0..(MaxChunkLen - 1) :
       chunker = [IdleChunker EXCEPT !.pc = "call", !.text = text,
                                     !.max_length = max_length, !.overlap = overlap]
  /\ preparer = IdlePreparer
  /\ service = IdleService
  /\ retrieval = IdleRetrieval
  /\ reply = IdleReply
  /\ limiter = IdleLimiter

\* Lines 30-34: the early return, or the start of the loop.
ChunkCall ==
  /\ chunker.pc = "call"
  /\ chunker' =
       IF chunker.text = <<>> \/ Len(chunker.text) <= chunker.max_length
       THEN [chunker EXCEPT !.pc = "done", !.chunks = ChunkShort(chunker.text)]
       ELSE [chunker EXCEPT !.pc = "loop", !.start = 0, !.chunks = <<>>]
  /\ UNCHANGED <<issues, repos, embeddings, run, hist, results, searched,
                 preparer, service,
                 retrieval, reply, limiter>>

\* Lines 36-56: one iteration of the loop (at most MaxIter of them are followed).
ChunkStep ==
  /\ chunker.pc = "loop"
  /\ chunker.start < Len(chunker.text)
  /\ chunker.iter < MaxIter
  /\ LET it == ChunkIter(chunker.text, chunker.max_length, chunker.overlap,
                         chunker.start)
     IN  chunker' = [chunker EXCEPT
                       !.start = it.next,
                       !.iter = @ + 1,
                       !.windows = Append(@, [start |-> chunker.start, end |-> it.end,
                                              chunk |-> it.chunk]),
                       !.chunks = IF it.chunk # <<>> THEN Append(@, it.chunk) ELSE @]
  /\ UNCHANGED <<issues, repos, embeddings, run, hist, results, searched,
                 preparer, service,
                 retrieval, reply, limiter>>

\* Line 58: the loop condition fails and the chunks are returned.
ChunkReturn ==
  /\ chunker.pc = "loop"
  /\ ~(chunker.start < Len(chunker.text))
  /\ chunker' = [chunker EXCEPT !.pc = "done"]
  /\ UNCHANGED <<issues, repos, embeddings, run, hist, results, searched,
                 preparer, service,
                 retrieval, reply, limiter>>

NextChunk == ChunkCall \/ ChunkStep \/ ChunkReturn

SpecChunk == InitChunk /\ [][NextChunk]_vars

(***************************************************************************)
(* prepare_issue_for_embedding as a program: one call on one issue.  The   *)
(* issues have an empty, blank or one-letter title and a body that is      *)
(* missing, empty, blank, short, or long: letters with a separator (a      *)
(* sentence end, a newline, a run of blanks, or nothing) at some position. *)
(***************************************************************************)
BodyLens == {497, 498, 1197}
SepPositions == {0, 200, 247, 248, 300, 450, 496, 700, 950, 1100}
Separators == {<<"a">>, <<".", " ">>, <<"\n">>, Repeat(" ", 500)}

LongBodies ==
  {Repeat("a", p) \o sep \o Repeat("a", n - p - Len(sep)) :
     <<n, p, sep>> \in {x \in BodyLens \X SepPositions \X Separators :
                          x[2] + Len(x[3]) <= x[1]}}

PrepareIssues ==
  {[id |-> 1, title |-> t, body |-> b] :
     t \in {<<>>, <<"a">>, <<" ">>},
     b \in {None, <<>>, <<" ">>, <<"b">>} \cup LongBodies}

InitPrepare ==
  /\ issues = {}
  /\ repos = {}
  /\ embeddings = {}
  /\ run = [r \in Runs |-> IdleRun]
  /\ hist = [r \in Runs |-> IdleHist]
  /\ results = <<>>
  /\ searched = NoSearch
  /\ chunker = IdleChunker
  /\ service = IdleService
  /\ retrieval = IdleRetrieval
  /\ reply = IdleReply
  /\ limiter = IdleLimiter
  /\ \E issue \in PrepareIssues :
       preparer = [IdlePreparer EXCEPT !.pc = "call", !.issue = issue]

\* chunks = embedding_service.prepare_issue_for_embedding(issue_dict)
PrepareIssue ==
  /\ preparer.pc = "call"
  /\ preparer' = [preparer EXCEPT !.pc = "done",
                                  !.items = prepare_issue_for_embedding(preparer.issue)]
  /\ UNCHANGED <<issues, repos, embeddings, run, hist, results, searched, chunker,
                 service,
                 retrieval, reply, limiter>>

NextPrepare == PrepareIssue

SpecPrepare == InitPrepare /\ [][NextPrepare]_vars

(***************************************************************************)
(* get_embedding_service() called by the threads of one process.  The      *)
(* statements of the function are separate steps: the test of the global,  *)
(* the construction of an EmbeddingService (the model load), the           *)
(* assignment to the global, and the return, which reads the global again. *)
(* Instances are numbered in the order of construction; 0 is None.         *)
(***************************************************************************)
InitService ==
  /\ issues = {}
  /\ repos = {}
  /\ embeddings = {}
  /\ run = [r \in Runs |-> IdleRun]
  /\ hist = [r \in Runs |-> IdleHist]
  /\ results = <<>>
  /\ searched = NoSearch
  /\ chunker = IdleChunker
  /\ preparer = IdlePreparer
  /\ service = IdleService
  /\ retrieval = IdleRetrieval
  /\ reply = IdleReply
  /\ limiter = IdleLimiter

\* The step of thread t that takes it to position pc.
ThreadStep(t, pc) == [service EXCEPT !.thread[t].pc = pc]

\* A thread calls get_embedding_service().
CallService(t) ==
  /\ service.thread[t].pc \in {"idle", "returned"}
  /\ service' = [service EXCEPT !.thread[t] = [IdleThread EXCEPT !.pc = "test"]]
  /\ UNCHANGED <<issues, repos, embeddings, run, hist, results, searched, chunker,
                 preparer,
                 retrieval, reply, limiter>>

\* `if _embedding_service is None:`
TestService(t) ==
  /\ service.thread[t].pc = "test"
  /\ service' = ThreadStep(t, IF service.instance = 0 THEN "construct" ELSE "return")
  /\ UNCHANGED <<issues, repos, embeddings, run, hist, results, searched, chunker,
                 preparer,
                 retrieval, reply, limiter>>

\* `EmbeddingService()`: a new object, the model is loaded.
ConstructService(t) ==
  /\ service.thread[t].pc = "construct"
  /\ service' = [service EXCEPT !.built = @ + 1,
                                !.thread[t].local = service.built + 1,
                                !.thread[t].pc = "assign"]
  /\ UNCHANGED <<issues, repos, embeddings, run, hist, results, searched, chunker,
                 preparer,
                 retrieval, reply, limiter>>

\* `_embedding_service = ...`
AssignService(t) ==
  /\ service.thread[t].pc = "assign"
  /\ service' = [service EXCEPT !.instance = service.thread[t].local,
                                !.thread[t].pc = "return"]
  /\ UNCHANGED <<issues, repos, embeddings, run, hist, results, searched, chunker,
                 preparer,
                 retrieval, reply, limiter>>

\* `return _embedding_service`
ReturnService(t) ==
  /\ service.thread[t].pc = "return"
  /\ service' = [service EXCEPT !.thread[t].got = service.instance,
                                !.thread[t].pc = "returned"]
  /\ UNCHANGED <<issues, repos, embeddings, run, hist, results, searched, chunker,
                 preparer,
                 retrieval, reply, limiter>>

NextService ==
  \E t \in Threads :
    \/ CallService(t)
    \/ TestService(t)
    \/ ConstructService(t)
    \/ AssignService(t)
    \/ ReturnService(t)

SpecService == InitService /\ [][NextService]_vars

(***************************************************************************)
(* get_all_context(query, user_id) and build_contextualized_prompt.        *)
(* A Python tuple is a sequence, a dict a record; a value carries its      *)
(* Python type where the code depends on it.                               *)
(***************************************************************************)
\* round(x, 2) of a similarity in thousandths: the nearest hundredth, a tie
\* going to the even one; NaN stays NaN.
Round2(x) ==
  IF x = NaN THEN NaN
  ELSE LET q == x \div 10
           r == x % 10
       IN  IF r < 5 THEN 10 * q
           ELSE IF r > 5 THEN 10 * (q + 1)
           ELSE IF q % 2 = 0 THEN 10 * q ELSE 10 * (q + 1)

\* f"[Source {i}] {content}"
SourceLine(i, content) ==
  <<"[", "S", "o", "u", "r", "c", "e", " ">> \o IntToStr(i) \o <<"]", " ">> \o content

\* "\n\n".join(parts)
RECURSIVE JoinBlank(_)
JoinBlank(parts) ==
  IF parts = <<>> THEN <<>>
  ELSE IF Len(parts) = 1 THEN parts[1]
  ELSE parts[1] \o <<"\n", "\n">> \o JoinBlank(Tail(parts))

\* f"{result['source_type']}_{result['source_id']}"
SourceKey(result) == <<result.source_type, "_">> \o IntToStr(result.source_id)

\* Mutant of Seen: no source counts as seen.
SeenNever(key, seen_sources) == FALSE

\* `source_key not in seen_sources`, negated
Seen(key, seen_sources) == key \in seen_sources

\* metadata.get(key, default)
DictGet(dict, key, default) == IF key \in DOMAIN dict THEN dict[key] ELSE default

\* The citation of a result; a result that is neither an issue nor a
\* repository has none.
Citation(result) ==
  IF result.source_type = "issue"
  THEN <<[type |-> "issue",
          title |-> DictGet(result.metadata, "title", "GitHub Issue"),
          similarity |-> Round2(result.similarity)]>>
  ELSE IF result.source_type = "repository"
  THEN <<[type |-> "repository",
          title |-> DictGet(result.metadata, "name", "GitHub Repository"),
          similarity |-> Round2(result.similarity)]>>
  ELSE <<>>

\* The loop over the results: one citation for the first result of each source.
RECURSIVE Sources(_, _)
Sources(rs, seen_sources) ==
  IF rs = <<>> THEN <<>>
  ELSE LET key == SourceKey(Head(rs))
       IN  IF Seen(key, seen_sources) THEN Sources(Tail(rs), seen_sources)
           ELSE Citation(Head(rs)) \o Sources(Tail(rs), seen_sources \cup {key})

\* The tuple (context_text, sources, total_sources) built from the results of
\* the search.
get_all_context(rs) ==
  IF rs = <<>> THEN << <<>>, <<>>, 0 >>
  ELSE LET sources == Sources(rs, {})
       IN  << JoinBlank([i \in 1..Len(rs) |-> SourceLine(i, rs[i].content)]),
              sources, Len(sources) >>

\* The template of build_contextualized_prompt(query, context, sources_count);
\* the fixed parts of the text are single elements.
build_contextualized_prompt(query, context, sources_count) ==
  <<"You are an AI assistant ... CONTEXT FROM GITHUB (">> \o IntToStr(sources_count)
    \o <<" sources):", "\n">> \o context \o <<"\n", "\n", "QUESTION: ">> \o query
    \o <<"\n", "\n", "INSTRUCTIONS: ... ANSWER:">>

\* Python values whose type the endpoint depends on.
PyTuple(items) == [type |-> "tuple", value |-> items]
PyDict(dict) == [type |-> "dict", value |-> dict]
PyStr(text) == [type |-> "str", value |-> text]

\* The empty dict {}: a record without fields.
EmptyDict == <<>>

\* extract_sources_list: json.dumps of its argument, a string.
extract_sources_list(sources) == PyStr(<<"json", sources.value>>)

(***************************************************************************)
(* The retrieval path on a synced index.  The source store holds up to two *)
(* issues and two repositories, and the table holds the rows a completed   *)
(* sync run of each tenant wrote for them.                                 *)
(***************************************************************************)
QueryIssueIds == 1..(MaxIssues + 1)
QueryRepoIds == 1..(MaxRepos + 1)

\* The texts of the source store: those of the sync model, an issue of two
\* chunks that are both close to the query "a", and a repository without a
\* description.
QueryIssueTexts ==
  IssueTexts
    \cup {[title |-> <<"a">>,
           body |-> Repeat("a", 400) \o <<".", " ">> \o Repeat("b", 99)]}

QueryRepoTexts == RepoTexts \cup {[name |-> <<"a">>, description |-> None]}

\* The source stores: each id is absent or holds one of the input texts.
IssueStores ==
  UNION {{{[id |-> i, user_id |-> IssueOwner(i), title |-> f[i].title,
            body |-> f[i].body] : i \in present} :
            f \in [present -> QueryIssueTexts]} :
         present \in SUBSET QueryIssueIds}

RepoStores ==
  UNION {{{[id |-> j, user_id |-> RepoOwner(j), name |-> f[j].name,
            description |-> f[j].description] : j \in present} :
            f \in [present -> QueryRepoTexts]} :
         present \in SUBSET QueryRepoIds}

\* The rows a completed run of sync_embeddings(u) leaves for tenant u.
SyncedRows(iss, reps, u) ==
  LET all_items == AllItems(QueryByUser(iss, u), QueryByUser(reps, u), u)
      embs == embed_batch([k \in 1..Len(all_items) |-> all_items[k].content])
  IN  IF NoData(QueryByUser(iss, u), QueryByUser(reps, u)) THEN {}
      ELSE CommitInsert({}, InsertRows(u, all_items, embs))

InitQuery ==
  /\ \E iss \in IssueStores, reps \in RepoStores :
       /\ issues = iss
       /\ repos = reps
       /\ embeddings = UNION {SyncedRows(iss, reps, u) : u \in Tenants}
  /\ run = [r \in Runs |-> IdleRun]
  /\ hist = [r \in Runs |-> IdleHist]
  /\ results = <<>>
  /\ searched = NoSearch
  /\ chunker = IdleChunker
  /\ preparer = IdlePreparer
  /\ service = IdleService
  /\ retrieval = IdleRetrieval
  /\ reply = IdleReply
  /\ limiter = IdleLimiter

\* get_all_context(query, user_id): the search with the default limit and
\* threshold, then the context built from its results.
GetAllContext(query, user_id) ==
  /\ retrieval.pc = "idle"
  /\ reply.pc = "idle"
  /\ \E rs \in SearchResults(embeddings, query, user_id, DefaultLimit,
                              DefaultMinSimilarity) :
       retrieval' = [pc |-> "done", query |-> query, user_id |-> user_id,
                     results |-> rs, value |-> get_all_context(rs)]
  /\ UNCHANGED <<issues, repos, embeddings, run, hist, results, searched, chunker,
                 preparer, service, reply, limiter>>

\* The same call when the connection or the SELECT raises: get_all_context
\* has no handler, the exception leaves it.
GetAllContextStoreFails(query, user_id) ==
  /\ retrieval.pc = "idle"
  /\ reply.pc = "idle"
  /\ retrieval' = [IdleRetrieval EXCEPT !.pc = "raised", !.query = query,
                                        !.user_id = user_id]
  /\ UNCHANGED <<issues, repos, embeddings, run, hist, results, searched, chunker,
                 preparer, service, reply, limiter>>

\* The caller of get_all_context is done with its value.
RetrievalReturns ==
  /\ retrieval.pc # "idle"
  /\ retrieval' = IdleRetrieval
  /\ UNCHANGED <<issues, repos, embeddings, run, hist, results, searched, chunker,
                 preparer, service, reply, limiter>>

\* A response of the endpoint.
Respond(prompt, user_id, use_context, context, status, ai_prompt, error, sources) ==
  [pc |-> "sent", prompt |-> prompt, user_id |-> user_id, use_context |-> use_context,
   status |-> status, ai_prompt |-> ai_prompt, error |-> error, sources |-> sources,
   context |-> context]

\* query_ai from `if context.get("total_sources", 0) > 0` on: the attribute
\* lookup on a tuple raises AttributeError, the call of
\* build_contextualized_prompt with two arguments raises TypeError, and the
\* handler of the outer try answers 500.
AnswerWith(prompt, user_id, use_context, context, sources) ==
  IF context.type # "dict"
  THEN Respond(prompt, user_id, use_context, context, 500, <<>>, "AttributeError", <<>>)
  ELSE IF DictGet(context.value, "total_sources", 0) > 0
  THEN Respond(prompt, user_id, use_context, context, 500, <<>>, "TypeError", <<>>)
  ELSE Respond(prompt, user_id, use_context, context, 200, prompt, "", sources)

\* POST /query with a prompt, for the current user (0: none) and with or
\* without context.
QueryAI(raw, user_id, use_context) ==
  /\ retrieval.pc = "idle"
  /\ reply.pc = "idle"
  /\ LET prompt == Strip(raw)
     IN  IF prompt = <<>> \/ Len(prompt) > 10000
         THEN reply' = Respond(prompt, user_id, use_context, PyDict(EmptyDict), 400,
                               <<>>, "Prompt is required", <<>>)
         ELSE IF use_context /\ user_id # 0
         THEN \E rs \in SearchResults(embeddings, prompt, user_id, DefaultLimit,
                                      DefaultMinSimilarity) :
                LET context == PyTuple(get_all_context(rs))
                IN  reply' = AnswerWith(prompt, user_id, use_context, context,
                                        extract_sources_list(context))
         ELSE reply' = AnswerWith(prompt, user_id, use_context, PyDict(EmptyDict), <<>>)
  /\ UNCHANGED <<issues, repos, embeddings, run, hist, results, searched, chunker,
                 preparer, service, retrieval, limiter>>

\* POST /query when the vector store is down: get_all_context raises and the
\* handler of the outer try answers 500.
QueryAIStoreFails(raw, user_id) ==
  /\ retrieval.pc = "idle"
  /\ reply.pc = "idle"
  /\ Strip(raw) # <<>>
  /\ user_id # 0
  /\ reply' = Respond(Strip(raw), user_id, TRUE, PyDict(EmptyDict), 500, <<>>,
                      "OperationalError", <<>>)
  /\ UNCHANGED <<issues, repos, embeddings, run, hist, results, searched, chunker,
                 preparer, service, retrieval, limiter>>

\* The response has been sent.
ReplySent ==
  /\ reply.pc = "sent"
  /\ reply' = IdleReply
  /\ UNCHANGED <<issues, repos, embeddings, run, hist, results, searched, chunker,
                 preparer, service, retrieval, limiter>>

Prompts == Queries \cup {<<" ", "a">>}

NextQuery ==
  \/ \E q \in Queries, u \in Tenants : GetAllContext(q, u)
  \/ \E q \in Queries, u \in Tenants : GetAllContextStoreFails(q, u)
  \/ RetrievalReturns
  \/ \E raw \in Prompts, u \in {0} \cup Tenants, c \in BOOLEAN : QueryAI(raw, u, c)
  \/ \E raw \in Prompts, u \in Tenants : QueryAIStoreFails(raw, u)
  \/ ReplySent

SpecQuery == InitQuery /\ [][NextQuery]_vars

(***************************************************************************)
(* The rate limiter: one global RateLimiter shared by every decorated      *)
(* endpoint, its list of request times kept per client key.  The requests  *)
(* of one client key are followed; time advances in steps of TickSeconds.  *)
(***************************************************************************)
InitLimiter ==
  /\ issues = {}
  /\ repos = {}
  /\ embeddings = {}
  /\ run = [r \in Runs |-> IdleRun]
  /\ hist = [r \in Runs |-> IdleHist]
  /\ results = <<>>
  /\ searched = NoSearch
  /\ chunker = IdleChunker
  /\ preparer = IdlePreparer
  /\ service = IdleService
  /\ retrieval = IdleRetrieval
  /\ reply = IdleReply
  /\ limiter = IdleLimiter

\* Time passes.
Tick ==
  /\ limiter.clock < MaxClock
  /\ limiter' = [limiter EXCEPT !.clock = @ + TickSeconds]
  /\ UNCHANGED <<issues, repos, embeddings, run, hist, results, searched, chunker,
                 preparer, service, retrieval, reply>>

\* A request enters a decorated endpoint: wrapped() takes the client key and
\* is_allowed reads `now = time.time()`, before it takes the lock.
ReadClock(t, endpoint) ==
  /\ limiter.thread[t].pc = "idle"
  /\ limiter.calls < MaxCalls
  /\ limiter' = [limiter EXCEPT
                   !.calls = @ + 1,
                   !.thread[t] = [pc |-> "read", now |-> limiter.clock,
                                  endpoint |-> endpoint]]
  /\ UNCHANGED <<issues, repos, embeddings, run, hist, results, searched, chunker,
                 preparer, service, retrieval, reply>>

\* [req_time for req_time in self.requests[key] if req_time > window_start]
CleanOld(requests, now, window_seconds) ==
  SelectSeq(requests, LAMBDA req_time : req_time > now - window_seconds)

\* `len(self.requests[key]) >= max_requests`
AtLimit(requests, max_requests) == Len(requests) >= max_requests

\* The locked section of is_allowed and the response of wrapped(): the
\* list is cleaned with the thread's own `now`; at the limit the call is
\* denied (429) and not recorded, else `now` is appended and the endpoint
\* runs.
IsAllowed(t) ==
  /\ limiter.thread[t].pc = "read"
  /\ LET now == limiter.thread[t].now
         endpoint == limiter.thread[t].endpoint
         cleaned == CleanOld(limiter.requests, now, WindowSeconds(endpoint))
     IN  IF AtLimit(cleaned, MaxRequests(endpoint))
         THEN limiter' = [limiter EXCEPT
                            !.requests = cleaned,
                            !.thread[t] = IdleCall,
                            !.denied[endpoint] = @ + 1,
                            !.last = [endpoint |-> endpoint, now |-> now,
                                      allowed |-> FALSE]]
         ELSE limiter' = [limiter EXCEPT
                            !.requests = Append(cleaned, now),
                            !.thread[t] = IdleCall,
                            !.allowed[<<endpoint, now>>] = @ + 1,
                            !.last = [endpoint |-> endpoint, now |-> now,
                                      allowed |-> TRUE]]
  /\ UNCHANGED <<issues, repos, embeddings, run, hist, results, searched, chunker,
                 preparer, service, retrieval, reply>>

NextLimiter ==
  \/ Tick
  \/ \E t \in Callers, endpoint \in Endpoints : ReadClock(t, endpoint)
  \/ \E t \in Callers : IsAllowed(t)

SpecLimiter == InitLimiter /\ [][NextLimiter]_vars

(***************************************************************************)
(* Properties.                                                             *)
(***************************************************************************)
Searching == ~Quiet

\* The runs that ended by an exception after their DELETE was committed and
\* before their INSERT transaction was.
FailedInWindow(r) ==
  run[r].pc = "failed" /\ hist[r].stage \in {"deleted", "inserted"}

\* The ids of the rows run r wrote.
OwnIds(r, ids) == {id \in ids : id[1] = r}

\* The ids of the candidates run r prepared from the source data it loaded.
CandidateIds(r) ==
  {<<r, k>> : k \in 1..Len(AllItems(run[r].issues, run[r].repos, run[r].user_id))}

\* C1: a search for tenant A returns only rows whose metadata tenant key is A,
\* whatever the query, the limit and the threshold, after any sync runs.
C1_TenantIsolation ==
  Searching =>
    \A k \in 1..Len(results) : results[k].metadata.user_id = searched.user_id

\* C1 witness: a search returned rows while another tenant has rows too.
C1_Witness ==
  /\ Searching
  /\ Len(results) > 0
  /\ \E e \in embeddings : e.metadata.user_id # searched.user_id

\* C2: a run that fails leaves the tenant's rows exactly as they were before
\* the run (stated for runs that no other run of the tenant overlapped).
C2_FailedRunRestores ==
  \A r \in Runs :
    (run[r].pc = "failed" /\ hist[r].alone) => hist[r].post = hist[r].pre

C4_EmptySourceIsNoOp ==
  [][\A r \in Runs :
       (run'[r] # run[r] /\ run'[r].pc # "idle"
          /\ run'[r].issues = <<>> /\ run'[r].repos = <<>>)
         => embeddings' = embeddings]_vars

\* C4 witness: a run returned early for a tenant that had embedding rows.
C4_Witness ==
  \E r \in Runs : run[r].pc = "no_data" /\ hist[r].pre # {} /\ hist[r].post = hist[r].pre

\* C5: of two completed runs of one tenant on the same source data, the
\* second starting on the rows the first left, neither overlapped by another
\* run, the second leaves as many rows as the first.
C5_IdempotentResync ==
  \A r1, r2 \in Runs :
    (/\ r1 # r2
     /\ run[r1].pc \in Completed /\ run[r2].pc \in Completed
     /\ run[r1].user_id = run[r2].user_id
     /\ hist[r1].alone /\ hist[r2].alone
     /\ run[r1].issues = run[r2].issues /\ run[r1].repos = run[r2].repos
     /\ hist[r2].pre = hist[r1].post)
      => Cardinality(hist[r2].post) = Cardinality(hist[r1].post)

\* C5 witness: the second of two successful runs on unchanged data started on
\* the first run's rows.
C5_Witness ==
  \E r1, r2 \in Runs :
    /\ r1 # r2
    /\ run[r1].pc = "synced" /\ run[r2].pc = "synced"
    /\ run[r1].user_id = run[r2].user_id
    /\ hist[r1].alone /\ hist[r2].alone
    /\ run[r1].issues = run[r2].issues /\ run[r1].repos = run[r2].repos
    /\ hist[r2].pre = hist[r1].post
    /\ hist[r1].post # {}

\* C6: a search (here with a non-empty query) never returns, for one
\* (source_type, source_id), rows of two sync generations whose total_chunks
\* differ.
C6_NoMixedGenerations ==
  (Searching /\ searched.query # <<>>) =>
    \A k, l \in 1..Len(results) :
      (/\ results[k].source_type = "issue" /\ results[l].source_type = "issue"
       /\ results[k].source_id = results[l].source_id
       /\ results[k].row[1] # results[l].row[1])
        => results[k].metadata.total_chunks = results[l].metadata.total_chunks

\* The uniqueness key of a row; a repository row has no chunk_index.
ChunkKey(e) ==
  <<e.source_type, e.source_id,
    IF "chunk_index" \in DOMAIN e.metadata THEN e.metadata.chunk_index ELSE -1>>

\* C7: no two rows of the table share (source_type, source_id, chunk_index).
C7_UniqueChunkKey ==
  \A e, f \in embeddings : ChunkKey(e) = ChunkKey(f) => e = f

\* C8: after a successful run the tenant's rows are exactly the candidates
\* the run prepared.
C8_SyncedRowsAreCandidates ==
  \A r \in Runs : run[r].pc = "synced" => hist[r].post = CandidateIds(r)

\* C9: every row of the embeddings table has non-empty content.
C9_ContentNonEmpty ==
  \A e \in embeddings : e.content # <<>>

\* C10: no chunk returned by chunk_text is empty or only whitespace.
C10_ChunksNotBlank ==
  chunker.pc = "done" =>
    \A k \in 1..Len(chunker.chunks) : Strip(chunker.chunks[k]) # <<>>

\* C11: with max_length > overlap >= 0 the cursor of chunk_text strictly
\* increases on every iteration of the loop, also when the window is cut back
\* to a sentence break.
C11_CursorAdvances ==
  [][(/\ chunker.pc = "loop"
      /\ chunker'.iter = chunker.iter + 1
      /\ chunker.max_length > chunker.overlap)
       => chunker'.start > chunker.start]_vars

\* Window w holds position p of the text (0-based).
InWindow(w, p) == w.start <= p /\ p < w.end

\* The chunk of window w is a piece of the text that lies inside the window
\* and holds position p.
InChunkOf(w, p) ==
  \E o \in w.start..p :
    /\ p < o + Len(w.chunk)
    /\ o + Len(w.chunk) <= Min(w.end, Len(chunker.text))
    /\ w.chunk = SubSeq(chunker.text, o + 1, o + Len(w.chunk))

C13_ShortTextIsOneChunk ==
  (chunker.pc = "done" /\ Len(chunker.text) <= chunker.max_length) =>
    /\ chunker.chunks = (IF chunker.text = <<>> THEN <<>> ELSE <<chunker.text>>)
    /\ chunker.chunks =
         chunk_text(chunker.text, chunker.max_length, chunker.overlap)

\* C13 witness: a short text with whitespace at both ends was returned.
C13_Witness ==
  /\ chunker.pc = "done"
  /\ Len(chunker.text) >= 3
  /\ Len(chunker.text) <= chunker.max_length
  /\ Head(chunker.text) \in Whitespace
  /\ chunker.text[Len(chunker.text)] \in Whitespace
  /\ chunker.chunks = <<chunker.text>>

\* The chunk indices of the candidates run 0, 1, ..., n-1 and each carries
\* total_chunks = n.
Numbered(items) ==
  \A k \in 1..Len(items) :
    /\ items[k].metadata.chunk_index = k - 1
    /\ items[k].metadata.total_chunks = Len(items)

\* Neither of the full windows [0, 500) and [450, 950) of a 1200-character
\* text has a newline or ". " above half of max_length, and each of the three
\* windows holds a character that is not whitespace.
PlainWindows(text) ==
  \A start \in {0, DefaultMaxLength - DefaultOverlap,
                 2 * (DefaultMaxLength - DefaultOverlap)} :
    LET window == PySlice(text, start, start + DefaultMaxLength)
    IN  /\ Strip(window) # <<>>
        /\ start + DefaultMaxLength < Len(text) =>
             2 * Max(RFind2(window, ".", " "), RFind1(window, "\n")) <= DefaultMaxLength

\* Three candidates numbered 0, 1, 2 of 3, none longer than max_length.
ThreeChunks(items) ==
  /\ Len(items) = 3
  /\ Numbered(items)
  /\ \A k \in 1..Len(items) : Len(items[k].content) <= DefaultMaxLength

\* C14 as stated: every issue whose combined text is 1200 characters long
\* yields exactly 3 candidates with chunk_index 0, 1, 2, total_chunks 3 and
\* contents of at most 500 characters.
C14_Always3Chunks ==
  (preparer.pc = "done" /\ Len(IssueFullText(preparer.issue)) = 1200) =>
    ThreeChunks(preparer.items)

\* C14 amended: an issue whose combined text is 1200 characters long yields
\* exactly those 3 candidates when no window is cut back to a sentence break
\* and no window is blank; whatever the text, no content is longer than 500
\* characters.
C14_PlainTextGives3Chunks ==
  (preparer.pc = "done" /\ Len(IssueFullText(preparer.issue)) = 1200) =>
    /\ PlainWindows(IssueFullText(preparer.issue)) => ThreeChunks(preparer.items)
    /\ \A k \in 1..Len(preparer.items) :
         Len(preparer.items[k].content) <= DefaultMaxLength

\* C14 witness: a 1200-character text with a sentence end in the first half of
\* its first window was prepared into 3 candidates.
C14_Witness ==
  /\ preparer.pc = "done"
  /\ Len(IssueFullText(preparer.issue)) = 1200
  /\ PlainWindows(IssueFullText(preparer.issue))
  /\ RFind2(IssueFullText(preparer.issue), ".", " ") > 0
  /\ Len(preparer.items) = 3

\* C15: the candidates of an issue carry chunk_index 0, 1, ..., n-1 in order
\* and total_chunks = n, n being their number; an issue whose combined text
\* is empty has no candidate.
C15_ChunkIndexContiguous ==
  preparer.pc = "done" =>
    /\ Numbered(preparer.items)
    /\ IssueFullText(preparer.issue) = <<>> => preparer.items = <<>>
    /\ IssueFullText(preparer.issue) # <<>> => preparer.items # <<>>

\* C15 witness: an issue was prepared into more than three candidates.
C15_Witness ==
  /\ preparer.pc = "done"
  /\ Len(preparer.items) > 3

\* The repository rows among the tenant's rows of the table.
RepositoryRows(table, user_id) ==
  {e \in TenantRows(table, user_id) : e.source_type = "repository"}

\* C16: right after a successful run the tenant has as many repository rows
\* as the run loaded repositories, and their source ids are the ids of those
\* repositories.
C16_OneRowPerRepository ==
  \A r \in Runs :
    (run[r].pc = "synced" /\ TenantIds(embeddings, run[r].user_id) = hist[r].post) =>
      LET rows == RepositoryRows(embeddings, run[r].user_id)
      IN  /\ Cardinality(rows) = Len(run[r].repos)
          /\ {e.source_id : e \in rows} = {x.id : x \in Range(run[r].repos)}

\* C17: EmbeddingService is constructed at most once, and all the callers of
\* get_embedding_service that have returned hold the same instance.
C17_SingleInstance ==
  /\ service.built <= 1
  /\ \A t, u \in Threads :
       (service.thread[t].pc = "returned" /\ service.thread[u].pc = "returned")
         => service.thread[t].got = service.thread[u].got

\* C18: every result of a search has similarity >= min_similarity.
C18_AboveThreshold ==
  Searching =>
    \A k \in 1..Len(results) : FloatGeq(results[k].similarity, searched.min_similarity)

\* C19: the results of a search are in order of non-increasing similarity.
C19_NonIncreasing ==
  Searching =>
    \A k \in 1..(Len(results) - 1) :
      FloatGeq(results[k].similarity, results[k + 1].similarity)

\* The tenant's rows whose similarity to the query is >= min_similarity.
Qualifying(table, query, user_id, min_similarity) ==
  {e \in TenantRows(table, user_id) :
     FloatGeq(Similarity(e.embedding, embed_text(query)), min_similarity)}

\* C20: a search returns exactly min(limit, k) rows, k being the number of the
\* tenant's rows with similarity >= min_similarity.
C20_ExactCount ==
  Searching =>
    Len(results) =
      Min(searched.limit,
          Cardinality(Qualifying(embeddings, searched.query, searched.user_id,
                                 searched.min_similarity)))

\* The indices of the results that are the first of their
\* (source_type, source_id), in order.
FirstOfSource(rs) ==
  SelectSeq([k \in 1..Len(rs) |-> k],
            LAMBDA k : \A j \in 1..(k - 1) :
                         <<rs[j].source_type, rs[j].source_id>>
                           # <<rs[k].source_type, rs[k].source_id>>)

\* The title a citation shows: the issue's title, the repository's name.
ShownTitle(result) ==
  IF result.source_type = "issue" THEN result.metadata.title ELSE result.metadata.name

\* One citation per distinct source, in order of first occurrence, each of the
\* type and title of the first result of its source, and a count equal to the
\* number of distinct sources.
OneCitationPerSource(rs, value) ==
  LET firsts == FirstOfSource(rs)
  IN  /\ Len(value[2]) = Len(firsts)
      /\ \A n \in 1..Len(firsts) :
           /\ value[2][n].type = rs[firsts[n]].source_type
           /\ value[2][n].title = ShownTitle(rs[firsts[n]])
      /\ value[3] =
           Cardinality({<<rs[k].source_type, rs[k].source_id>> : k \in 1..Len(rs)})

\* C21: when the tenant has no row, or every row of the tenant has a
\* similarity below 0.3, get_all_context returns ("", [], 0).
C21_EmptyResultFallback ==
  (/\ retrieval.pc = "done"
   /\ \A e \in TenantRows(embeddings, retrieval.user_id) :
        LET sim == Similarity(e.embedding, embed_text(retrieval.query))
        IN  sim # NaN /\ sim < DefaultMinSimilarity)
    => retrieval.value = << <<>>, <<>>, 0 >>

\* C21 witness: get_all_context returned for a tenant whose rows are all
\* below the threshold.
C21_Witness ==
  /\ retrieval.pc = "done"
  /\ TenantRows(embeddings, retrieval.user_id) # {}
  /\ \A e \in TenantRows(embeddings, retrieval.user_id) :
       LET sim == Similarity(e.embedding, embed_text(retrieval.query))
       IN  sim # NaN /\ sim < DefaultMinSimilarity
  /\ retrieval.value = << <<>>, <<>>, 0 >>

\* C22 as stated: one citation per distinct source, and each citation carries
\* the similarity of the first result of its source.
C22_CitationCarriesSimilarity ==
  retrieval.pc = "done" =>
    /\ OneCitationPerSource(retrieval.results, retrieval.value)
    /\ \A n \in 1..Len(retrieval.value[2]) :
         (Len(retrieval.value[2]) = Len(FirstOfSource(retrieval.results))) =>
           retrieval.value[2][n].similarity =
             retrieval.results[FirstOfSource(retrieval.results)[n]].similarity

\* C22 amended: one citation per distinct source, and each citation carries
\* the similarity of the first result of its source rounded to two decimals.
C22_CitationCarriesRoundedSimilarity ==
  retrieval.pc = "done" =>
    /\ OneCitationPerSource(retrieval.results, retrieval.value)
    /\ \A n \in 1..Len(retrieval.value[2]) :
         (Len(retrieval.value[2]) = Len(FirstOfSource(retrieval.results))) =>
           retrieval.value[2][n].similarity =
             Round2(retrieval.results[FirstOfSource(retrieval.results)[n]].similarity)

\* C22 witness: of three or more results two sources were cited, one of them
\* with a similarity that is not a whole number of hundredths, for a
\* non-empty query.
C22_Witness ==
  /\ retrieval.pc = "done"
  /\ retrieval.query # <<>>
  /\ Len(retrieval.results) >= 3
  /\ Len(retrieval.value[2]) = 2
  /\ \E k \in 1..Len(retrieval.results) :
       Round2(retrieval.results[k].similarity) # retrieval.results[k].similarity

\* C23: a failure of the vector store at query time does not leave
\* get_all_context as an exception, and the endpoint does not answer it with
\* an error.
C23_StoreFailureIsQuiet ==
  /\ retrieval.pc # "raised"
  /\ ~(reply.pc = "sent" /\ reply.error = "OperationalError" /\ reply.status # 200)

\* C24: for a request with a current user and context enabled (and a working
\* store) the endpoint answers 200, having handed call_ai the raw prompt when
\* source_count = 0 and the contextualized template otherwise.
C24_PromptBySourceCount ==
  (/\ reply.pc = "sent"
   /\ reply.user_id # 0
   /\ reply.use_context
   /\ reply.prompt # <<>>
   /\ reply.error # "OperationalError")
    => /\ reply.status = 200
       /\ reply.context.type = "tuple"
       /\ reply.ai_prompt =
            IF reply.context.value[3] = 0 THEN reply.prompt
            ELSE build_contextualized_prompt(reply.prompt, reply.context.value[1],
                                             reply.context.value[3])

(***************************************************************************)
(* The sentence break of chunk_text                                        *)
(***************************************************************************)
\* The offset in the window starting at `start` of its last sentence
\* terminator ('. ' or newline), or -1 when it has none.
LastTerminator(text, start, max_length) ==
  LET window == PySlice(text, start, start + max_length)
  IN  Max(RFind2(window, ".", " "), RFind1(window, "\n"))

\* The windows of the call so far that do not reach the end of the text.
InnerWindows ==
  {i \in 1..Len(chunker.windows) :
     chunker.windows[i].start + chunker.max_length < Len(chunker.text)}

ValidText(t) == IF t # <<>> THEN t ELSE <<" ">>

\* The candidates a run has prepared from the source data it loaded.
PreparedItems(r) == AllItems(run[r].issues, run[r].repos, run[r].user_id)

StepsFor(r, u) ==
  /\ run'[r].pc # run[r].pc
  /\ \/ run[r].pc = "idle" /\ run'[r].user_id = u
     \/ run[r].pc \in Active /\ run[r].user_id = u

\* C27: a step of sync_embeddings(A), whether it goes on, returns early or
\* fails, leaves the rows of every other tenant B as they were: the rows of
\* a tenant change only in a step of a run of that tenant.
C27_OtherTenantsUntouched ==
  [][\A b \in Tenants :
       TenantRows(embeddings', b) # TenantRows(embeddings, b)
         => \E r \in Runs : StepsFor(r, b)]_vars

\* A run of one tenant has executed its DELETE while the rows another
\* tenant's finished run had committed are all in the table.
C27_Witness ==
  \E r \in Runs, o \in Runs :
    /\ run[r].pc = "deleted"
    /\ run[o].pc = "synced"
    /\ run[o].user_id # run[r].user_id
    /\ hist[o].post # {}
    /\ TenantIds(embeddings, run[o].user_id) = hist[o].post

(***************************************************************************)
(* A run with nothing to embed                                             *)
(***************************************************************************)
\* Run r has returned, having loaded issues of its tenant and prepared no
\* candidate from what it loaded.
ReturnedWithoutCandidates(r) ==
  /\ run[r].pc \in Completed
  /\ run[r].issues # <<>>
  /\ Len(PreparedItems(r)) = 0

\* C28 (as stated): a run that prepares zero candidates (issues loaded, all
\* with empty title and body, no repositories) leaves the tenant's
\* previously stored rows unchanged when it returns.
C28_NoContentKeepsRows ==
  \A r \in Runs :
    ReturnedWithoutCandidates(r) => hist[r].post = hist[r].pre

\* C28 (amended): such a run has deleted the tenant's previously stored rows
\* before it finds nothing to embed: none of the rows the tenant had when
\* the run began is left when it returns, and the tenant has no row at all
\* when no other run of the tenant overlapped.
C28_NoContentClearsRows ==
  \A r \in Runs :
    ReturnedWithoutCandidates(r) =>
      /\ hist[r].post \cap hist[r].pre = {}
      /\ hist[r].alone => hist[r].post = {}

\* A run of a tenant that had rows has returned with nothing to embed.
C28_Witness ==
  \E r \in Runs :
    /\ run[r].pc = "no_content"
    /\ ReturnedWithoutCandidates(r)
    /\ hist[r].pre # {}
    /\ hist[r].post = {}

(***************************************************************************)
(* Rate limits                                                             *)
(***************************************************************************)
RECURSIVE SumOver(_, _)
SumOver(f, S) ==
  IF S = {} THEN 0
  ELSE LET x == CHOOSE y \in S : TRUE IN f[x] + SumOver(f, S \ {x})

\* The number of calls to the endpoint answered 'allowed' whose timestamp is
\* in the interval [from, from + window_seconds).
AllowedWithin(endpoint, from) ==
  SumOver(limiter.allowed,
          {x \in Endpoints \X Times :
             x[1] = endpoint /\ from <= x[2] /\ x[2] < from + WindowSeconds(endpoint)})

\* Every call answered so far was a call to the endpoint.
OnlyEndpoint(endpoint) ==
  \A x \in Endpoints \X Times :
    x[1] # endpoint => limiter.allowed[x] = 0 /\ limiter.denied[x[1]] = 0

\* C29 (first part): while the client calls one endpoint only (fixed
\* max_requests and window_seconds), the number of allowed calls with a
\* timestamp in any interval of window_seconds is at most max_requests,
\* under every interleaving of the concurrent is_allowed calls.
C29_AtMostMaxPerWindow ==
  \A endpoint \in Endpoints :
    OnlyEndpoint(endpoint) =>
      \A from \in Times : AllowedWithin(endpoint, from) <= MaxRequests(endpoint)

\* The number of allowed calls to the endpoint with a timestamp after
\* `window_start`.
AllowedSince(endpoint, window_start) ==
  SumOver(limiter.allowed,
          {x \in Endpoints \X Times : x[1] = endpoint /\ x[2] > window_start})

\* C30: the limit of an endpoint is independent of the client's requests to
\* the other endpoints: a request is denied only when the client's allowed
\* requests to that same endpoint within its window have reached the
\* endpoint's max_requests.
C30_EndpointsIndependent ==
  (limiter.last.endpoint # "" /\ ~limiter.last.allowed) =>
    AllowedSince(limiter.last.endpoint,
                 limiter.last.now - WindowSeconds(limiter.last.endpoint))
      >= MaxRequests(limiter.last.endpoint)

====
